---------------------------- MODULE Spec2Model ----------------------------
(***************************************************************************)
(* A model of the rusty_controller command orchestration engine            *)
(* (src/src/main.rs, message.rs, port_operations.rs, macros.rs,            *)
(* config.rs).                                                             *)
(*                                                                         *)
(* Text that the program parses (host lines, device reply lines,           *)
(* configuration values) is a sequence of one-character strings, so that   *)
(* split, parse and strip are computed as the code computes them.  Text    *)
(* that the program formats and writes to a device is a TLA+ string.       *)
(* u64 values are canonical big-endian sequences of decimal digits and     *)
(* u32 values are sequences of 32 bits, least significant first, so that   *)
(* their full width is kept.                                               *)
(***************************************************************************)
EXTENDS Integers, Sequences, FiniteSets, TLC

(***************************************************************************)
(* Text helpers                                                            *)
(***************************************************************************)

\* str::split(delimiter): the pieces between the occurrences of d
Split[s \in Seq(STRING), d \in STRING] ==
    IF \A i \in 1..Len(s) : s[i] # d
    THEN <<s>>
    ELSE LET i == CHOOSE k \in 1..Len(s) :
                     s[k] = d /\ \A j \in 1..(k - 1) : s[j] # d
         IN  <<SubSeq(s, 1, i - 1)>> \o Split[SubSeq(s, i + 1, Len(s)), d]

\* the text of a character sequence, as format!("{}") prints it
Str[s \in Seq(STRING)] == IF s = <<>> THEN "" ELSE Head(s) \o Str[Tail(s)]

Reverse[s \in Seq(Nat)] == [i \in 1..Len(s) |-> s[Len(s) + 1 - i]]

DigitChars == <<"0", "1", "2", "3", "4", "5", "6", "7", "8", "9">>

IsDigit(c) == \E i \in 1..10 : DigitChars[i] = c

DigitVal(c) == (CHOOSE i \in 1..10 : DigitChars[i] = c) - 1

HexChars == <<"0", "1", "2", "3", "4", "5", "6", "7", "8", "9",
              "a", "b", "c", "d", "e", "f">>

HexUpper == <<"0", "1", "2", "3", "4", "5", "6", "7", "8", "9",
              "A", "B", "C", "D", "E", "F">>

IsHexDigit(c) == \E i \in 1..16 : HexChars[i] = c \/ HexUpper[i] = c

HexVal(c) == (CHOOSE i \in 1..16 : HexChars[i] = c \/ HexUpper[i] = c) - 1

\* the printable ASCII characters from 32 (space) to 95 (underscore), in code
\* order
AsciiLow ==
    <<" ", "!", "\"", "#", "$", "%", "&", "'", "(", ")", "*", "+", ",", "-",
      ".", "/", "0", "1", "2", "3", "4", "5", "6", "7", "8", "9", ":", ";",
      "<", "=", ">", "?", "@", "A", "B", "C", "D", "E", "F", "G", "H", "I",
      "J", "K", "L", "M", "N", "O", "P", "Q", "R", "S", "T", "U", "V", "W",
      "X", "Y", "Z", "[", "\\", "]", "^", "_">>

\* the printable ASCII characters from 97 (a) to 126 (tilde), in code order
AsciiHigh ==
    <<"a", "b", "c", "d", "e", "f", "g", "h", "i", "j", "k", "l", "m", "n",
      "o", "p", "q", "r", "s", "t", "u", "v", "w", "x", "y", "z", "{", "|",
      "}", "~">>

\* the byte of a character (String::as_bytes on ASCII text)
Ord(c) ==
    IF \E i \in 1..Len(AsciiLow) : AsciiLow[i] = c
    THEN 31 + (CHOOSE i \in 1..Len(AsciiLow) : AsciiLow[i] = c)
    ELSE 96 + (CHOOSE i \in 1..Len(AsciiHigh) : AsciiHigh[i] = c)

(***************************************************************************)
(* u64 arithmetic on decimal digit sequences                               *)
(***************************************************************************)

\* leading zeros removed, one digit kept
Canon[ds \in Seq(Nat)] ==
    IF Len(ds) > 1 /\ Head(ds) = 0 THEN Canon[Tail(ds)] ELSE ds

U64Zero == <<0>>

\* u64::MAX = 18446744073709551615
U64Max == <<1, 8, 4, 4, 6, 7, 4, 4, 0, 7, 3, 7, 0, 9, 5, 5, 1, 6, 1, 5>>

\* 2^64 = 18446744073709551616
TwoPow64 == <<1, 8, 4, 4, 6, 7, 4, 4, 0, 7, 3, 7, 0, 9, 5, 5, 1, 6, 1, 6>>

\* a <= b, for canonical digit sequences
NumLE[a \in Seq(Nat), b \in Seq(Nat)] ==
    \/ Len(a) < Len(b)
    \/ /\ Len(a) = Len(b)
       /\ \/ a = b
          \/ \E i \in 1..Len(a) :
                /\ a[i] < b[i]
                /\ \A j \in 1..(i - 1) : a[j] = b[j]

\* little-endian digits of ds * m + carry
MulLE[ds \in Seq(Nat), m \in Nat, carry \in Nat] ==
    IF ds = <<>>
    THEN IF carry = 0 THEN <<>>
         ELSE <<carry % 10>> \o MulLE[<<>>, m, carry \div 10]
    ELSE LET t == Head(ds) * m + carry
         IN  <<t % 10>> \o MulLE[Tail(ds), m, t \div 10]

\* the mathematical product a * m, canonical
NumMul[a \in Seq(Nat), m \in Nat] == Canon[Reverse[MulLE[Reverse[a], m, 0]]]

\* little-endian digits of a - b - borrow, for a >= b
SubLE[a \in Seq(Nat), b \in Seq(Nat), borrow \in 0..1] ==
    IF a = <<>> THEN <<>>
    ELSE LET bd == IF b = <<>> THEN 0 ELSE Head(b)
             t  == Head(a) - bd - borrow
         IN  <<(t + 10) % 10>>
             \o SubLE[Tail(a), IF b = <<>> THEN <<>> ELSE Tail(b),
                      IF t < 0 THEN 1 ELSE 0]

NumSub[a \in Seq(Nat), b \in Seq(Nat)] ==
    Canon[Reverse[SubLE[Reverse[a], Reverse[b], 0]]]

\* a mod 2^64 (the value a wrapping u64 operation keeps)
WrapU64[a \in Seq(Nat)] ==
    IF NumLE[a, U64Max] THEN a ELSE WrapU64[NumSub[a, TwoPow64]]

\* Display of a u64
NumStr(a) == Str[[i \in 1..Len(a) |-> DigitChars[a[i] + 1]]]

\* the small natural number a canonical digit sequence of at most 4 digits
\* stands for, -1 for a longer one
SmallVal[a \in Seq(Nat)] ==
    IF Len(a) > 4 THEN -1
    ELSE IF Len(a) = 1 THEN a[1]
    ELSE SmallVal[SubSeq(a, 1, Len(a) - 1)] * 10 + a[Len(a)]

(***************************************************************************)
(* FromStr for the integer types the program parses.  Each result is       *)
(* [ok |-> BOOLEAN, val |-> value].                                        *)
(***************************************************************************)

\* the digits after an optional leading plus sign
Unsigned(s) == IF Len(s) > 0 /\ Head(s) = "+" THEN Tail(s) ELSE s

\* <u64 as FromStr>::from_str
ParseU64(s) ==
    LET ds == Unsigned(s)
    IN  IF ds = <<>> \/ \E i \in 1..Len(ds) : ~IsDigit(ds[i])
        THEN [ok |-> FALSE, val |-> U64Zero]
        ELSE LET v == Canon[[i \in 1..Len(ds) |-> DigitVal(ds[i])]]
             IN  IF NumLE[v, U64Max] THEN [ok |-> TRUE, val |-> v]
                 ELSE [ok |-> FALSE, val |-> U64Zero]

\* <i8 as FromStr>::from_str
ParseI8(s) ==
    LET neg == Len(s) > 0 /\ Head(s) = "-"
        ds  == IF neg THEN Tail(s) ELSE Unsigned(s)
    IN  IF ds = <<>> \/ \E i \in 1..Len(ds) : ~IsDigit(ds[i])
        THEN [ok |-> FALSE, val |-> 0]
        ELSE LET m == SmallVal[Canon[[i \in 1..Len(ds) |-> DigitVal(ds[i])]]]
             IN  IF m < 0 \/ (neg /\ m > 128) \/ (~neg /\ m > 127)
                 THEN [ok |-> FALSE, val |-> 0]
                 ELSE [ok |-> TRUE, val |-> IF neg THEN 0 - m ELSE m]

\* the four bits of a nibble, least significant first
NibbleBits(n) == <<n % 2, (n \div 2) % 2, (n \div 4) % 2, (n \div 8) % 2>>

\* the bits, least significant first, of hex digits given most significant first
RECURSIVE HexBits(_)
HexBits(hs) ==
    IF hs = <<>> THEN <<>>
    ELSE HexBits(Tail(hs)) \o NibbleBits(Head(hs))

Zeros(n) == [i \in 1..n |-> 0]

\* u32::from_str_radix(s, 16)
ParseHexU32(s) ==
    LET ds == Unsigned(s)
    IN  IF ds = <<>> \/ \E i \in 1..Len(ds) : ~IsHexDigit(ds[i])
        THEN [ok |-> FALSE, val |-> Zeros(32)]
        ELSE LET hs == Canon[[i \in 1..Len(ds) |-> HexVal(ds[i])]]
             IN  IF Len(hs) > 8 THEN [ok |-> FALSE, val |-> Zeros(32)]
                 ELSE [ok  |-> TRUE,
                       val |-> HexBits(hs) \o Zeros(32 - 4 * Len(hs))]

(***************************************************************************)
(* CRC-32 (IEEE 802.3), as crc32fast::hash computes it                     *)
(***************************************************************************)

BitXor(a, b) == [i \in 1..Len(a) |-> (a[i] + b[i]) % 2]

\* the eight bits of a byte, least significant first, widened to 32 bits
RECURSIVE ByteBits(_, _)
ByteBits(v, n) == IF n = 0 THEN <<>> ELSE <<v % 2>> \o ByteBits(v \div 2, n - 1)

\* the reflected polynomial 0xEDB88320
CrcPoly == HexBits(<<14, 13, 11, 8, 8, 3, 2, 0>>)

\* one bit of the division: shift right, xor the polynomial when a one fell out
CrcShift(crc) ==
    LET shifted == Tail(crc) \o <<0>>
    IN  IF crc[1] = 1 THEN BitXor(shifted, CrcPoly) ELSE shifted

\* the division by the polynomial over the eight bits of one byte
CrcByte(crc, c) ==
    LET x0 == BitXor(crc, ByteBits(Ord(c), 8) \o Zeros(24))
    IN  CrcShift(CrcShift(CrcShift(CrcShift(
        CrcShift(CrcShift(CrcShift(CrcShift(x0))))))))

\* the register after the bytes of s (the test on Len(crc) only makes the
\* register a value before the next byte is taken)
RECURSIVE CrcUpdate(_, _)
CrcUpdate(crc, s) ==
    IF s = <<>> \/ Len(crc) # 32 THEN crc
    ELSE CrcUpdate(CrcByte(crc, Head(s)), Tail(s))

Crc32(s) == BitXor(CrcUpdate([i \in 1..32 |-> 1], s), [i \in 1..32 |-> 1])

(***************************************************************************)
(* Inputs: command tokens, batches (the data field of a host frame) and    *)
(* host lines as read from the application port, the newline removed       *)
(***************************************************************************)

\* W_150
T_W150 == <<"W", "_", "1", "5", "0">>

\* W
T_W == <<"W">>

\* W_abc
T_Wabc == <<"W", "_", "a", "b", "c">>

\* LA_7_0_100
T_LA7 == <<"L", "A", "_", "7", "_", "0", "_", "1", "0", "0">>

\* LA_8_0_50
T_LA8 == <<"L", "A", "_", "8", "_", "0", "_", "5", "0">>

\* LA_9_0_50
T_LA9 == <<"L", "A", "_", "9", "_", "0", "_", "5", "0">>

\* LA_5_0_5
T_LA5 == <<"L", "A", "_", "5", "_", "0", "_", "5">>

\* LA_x_0_5
T_LAx == <<"L", "A", "_", "x", "_", "0", "_", "5">>

\* LA_y_0_5
T_LAy == <<"L", "A", "_", "y", "_", "0", "_", "5">>

\* LA
T_LA == <<"L", "A">>

\* LA_7_0
T_LA7novol == <<"L", "A", "_", "7", "_", "0">>

\* LA_7_0_x
T_LA7badvol == <<"L", "A", "_", "7", "_", "0", "_", "x">>

\* LA_34_0_10
T_LA34 == <<"L", "A", "_", "3", "4", "_", "0", "_", "1", "0">>

\* LA_35_0_10
T_LA35 == <<"L", "A", "_", "3", "5", "_", "0", "_", "1", "0">>

\* LA_36_0_10
T_LA36 == <<"L", "A", "_", "3", "6", "_", "0", "_", "1", "0">>

\* LA_40_0_10
T_LA40 == <<"L", "A", "_", "4", "0", "_", "0", "_", "1", "0">>

\* LA_41_0_10
T_LA41 == <<"L", "A", "_", "4", "1", "_", "0", "_", "1", "0">>

\* LA_7_0_768614336404564651
T_LA7big ==
    <<"L", "A", "_", "7", "_", "0", "_", "7", "6", "8", "6", "1", "4", "3",
      "3", "6", "4", "0", "4", "5", "6", "4", "6", "5", "1">>

\* LA_7_0_501
T_LA7over == <<"L", "A", "_", "7", "_", "0", "_", "5", "0", "1">>

\* TC_37
T_TC == <<"T", "C", "_", "3", "7">>

\* BTC_4
T_BTC == <<"B", "T", "C", "_", "4">>

\* XX_1
T_XX == <<"X", "X", "_", "1">>

\* W_999999999
T_W999 == <<"W", "_", "9", "9", "9", "9", "9", "9", "9", "9", "9">>

\* tokens joined by single spaces
RECURSIVE JoinTokens(_)
JoinTokens(ts) ==
    IF ts = <<>> THEN <<>>
    ELSE IF Len(ts) = 1 THEN Head(ts)
    ELSE Head(ts) \o <<" ">> \o JoinTokens(Tail(ts))

B_LA7_LA8 == JoinTokens(<<T_LA7, T_LA8>>)

B_XX_W150 == JoinTokens(<<T_XX, T_W150>>)

B_TC_BTC_W150 == JoinTokens(<<T_TC, T_BTC, T_W150>>)

B_LAx_LA7 == JoinTokens(<<T_LAx, T_LA7>>)

B_LA34_LA7 == JoinTokens(<<T_LA34, T_LA7>>)

B_Empty == JoinTokens(<<>>)

\* the CRC-32 the host sends with each batch, in hexadecimal (computed
\* outside the model)
HostCrc ==
    (T_W150 :> <<"7", "e", "3", "e", "8", "6", "8", "f">>)
    @@ (T_LA7 :> <<"5", "c", "8", "6", "7", "6", "0", "2">>)
    @@ (T_LA9 :> <<"6", "4", "1", "0", "d", "2", "d", "9">>)
    @@ (T_W :> <<"2", "7", "0", "d", "2", "b", "d", "a">>)
    @@ (T_Wabc :> <<"1", "5", "1", "a", "6", "3", "e", "2">>)
    @@ (T_LA5 :> <<"b", "1", "e", "0", "8", "4", "0", "e">>)
    @@ (T_LAy :> <<"2", "c", "e", "3", "3", "1", "4", "6">>)
    @@ (T_LA :> <<"1", "c", "c", "e", "6", "3", "f", "0">>)
    @@ (T_LA7novol :> <<"0", "5", "7", "b", "8", "7", "9", "b">>)
    @@ (T_LA7badvol :> <<"c", "3", "4", "d", "e", "a", "4", "3">>)
    @@ (T_LA35 :> <<"2", "2", "d", "3", "a", "e", "8", "f">>)
    @@ (T_LA36 :> <<"a", "4", "4", "7", "d", "c", "2", "1">>)
    @@ (T_LA40 :> <<"b", "7", "b", "9", "0", "1", "b", "2">>)
    @@ (T_LA41 :> <<"7", "c", "e", "5", "d", "2", "1", "7">>)
    @@ (T_LA7big :> <<"5", "a", "6", "1", "f", "3", "4", "c">>)
    @@ (T_LA7over :> <<"2", "c", "8", "8", "e", "e", "4", "8">>)
    @@ (T_W999 :> <<"2", "f", "a", "a", "9", "a", "c", "4">>)
    @@ (B_LA7_LA8 :> <<"1", "3", "f", "f", "1", "b", "8", "8">>)
    @@ (B_XX_W150 :> <<"b", "d", "6", "1", "7", "6", "8", "c">>)
    @@ (B_TC_BTC_W150 :> <<"2", "e", "8", "5", "b", "3", "e", "d">>)
    @@ (B_LAx_LA7 :> <<"e", "8", "d", "1", "4", "1", "4", "3">>)
    @@ (B_LA34_LA7 :> <<"1", "0", "e", "0", "0", "8", "e", "0">>)
    @@ (B_Empty :> <<"0", "0", "0", "0", "0", "0", "0", "0">>)

\* a host frame: <channel>,<data>,<crcHex>
Frame(channel, data, crc) == channel \o <<",">> \o data \o <<",">> \o crc

\* the batches the host sends on channel 4
Batches ==
    {T_W150, T_LA7, T_LA9, T_W, T_Wabc, T_LA5,
     T_LAy, T_LA, T_LA7novol, T_LA7badvol, T_LA35, T_LA36,
     T_LA40, T_LA41, T_LA7big, T_LA7over,
     B_LA7_LA8, B_XX_W150, B_TC_BTC_W150,
     B_LAx_LA7, B_LA34_LA7, B_Empty}

\* frames on channel 4 with a matching CRC
Channel4Lines == {Frame(<<"4">>, b, HostCrc[b]) : b \in Batches}

\* correctly framed messages on another channel
OtherChannelLines ==
    {Frame(<<"3">>, T_W999, HostCrc[T_W999]),
     Frame(<<"-", "1">>, T_LA7, HostCrc[T_LA7])}

\* lines that are no frame: a mismatching CRC, two fields, four fields, a
\* channel that is no number, a channel out of the range of i8, a CRC field
\* that is no hexadecimal number
RejectedLines ==
    {Frame(<<"4">>, T_W150, <<"0", "0", "0", "0", "0", "0", "0", "0">>),
     <<"4", ",">> \o T_W150,
     Frame(<<"4">>, T_W150, HostCrc[T_W150]) \o <<",", "1">>,
     Frame(<<"x">>, T_W150, HostCrc[T_W150]),
     Frame(<<"1", "2", "8">>, T_W150, HostCrc[T_W150]),
     Frame(<<"4">>, T_W150, <<"z", "z">>)}

\* a frame on channel 4 written with a plus sign, its CRC in upper-case
\* hexadecimal digits with a leading zero
SignedUpperLine ==
    Frame(<<"+", "4">>, T_W150, <<"0", "7", "E", "3", "E", "8", "6", "8", "F">>)

Lines ==
    Channel4Lines \cup OtherChannelLines \cup RejectedLines
       \cup {SignedUpperLine}

(***************************************************************************)
(* Device reply lines, the line end removed                                *)
(***************************************************************************)

RouterOkLine == <<"G", "1", ":", "O", "K">>

\* what the router may answer: the acknowledgement, an error, a lower-case
\* ok, an empty line
RouterReplies == {RouterOkLine, <<"E", "R", "R">>, <<"o", "k">>, <<>>}

\* the idle status answer: /0c between a start byte and an end byte
PumpIdleLine == <<"#", "/", "0", "c", "$">>

\* what the pump may answer to a status query: idle, busy, the bare text
\* /0c, a one-byte line, an empty line
PumpReplies ==
    {PumpIdleLine, <<"#", "/", "0", "@", "$">>, <<"/", "0", "c">>, <<"x">>,
     <<>>}

\* the polls of one batch that find the pump not idle
MaxBusyPolls == 1

(***************************************************************************)
(* Configuration                                                           *)
(***************************************************************************)

\* Config.tube_holder_coordinates: slot 5 holds two fields only, slots 9,
\* 35 and 41 and the key y have no entry
tube_holder_coordinates ==
    (<<"7">> :> <<"1", "0", ":", "2", "0", ":", "-", "5">>)
    @@ (<<"8">> :> <<"3", "0", ":", "4", "0", ":", "-", "7">>)
    @@ (<<"5">> :> <<"1", ":", "2">>)
    @@ (<<"x">> :> <<"1", ":", "2", ":", "3">>)
    @@ (<<"3", "4">> :> <<"0", ":", "0", ":", "0">>)
    @@ (<<"3", "6">> :> <<"0", ":", "0", ":", "0">>)
    @@ (<<"4", "0">> :> <<"0", ":", "0", ":", "0">>)

(***************************************************************************)
(* State                                                                   *)
(***************************************************************************)

VARIABLES
    pc,                 \* the position of the single thread
    ret,                \* where it goes on once the pending wait returns
    slot_occupancy,     \* Controller.slot_occupancy
    constant_cleaning,  \* CONFIG.constant_cleaning
    overflow_checks,    \* the build panics on integer overflow (else wraps)
    line,               \* the line read last from the application port
    msg,                \* the Message of the last line, or NoMessage
    commands,           \* msg.data.split(' ')
    ci,                 \* the index in commands of the current command
    coords,             \* [x, y, z] of handle_liquid_application
    vol_microliter,     \* vol_microliter of handle_liquid_application
    outcome,            \* how the last line ended
    error,              \* the text of the Break, or of the panic
    trace,              \* port writes and sleeps since the line was read
    pump_ready,         \* await_pump_availability returned, no command since
    router_outstanding, \* router commands written and not yet answered
    router_reply,       \* the line read last from the router port, NoLine
                        \* when none was read since the host's line
    busy_polls,         \* polls of this batch that found the pump not idle
    cmd_start,          \* Len(trace) when the current command was dispatched
    entry_occupancy,    \* slot_occupancy when it was dispatched
    done,               \* the index of the command that just returned
                        \* Continue, 0 once another is dispatched
    dispatched          \* the indexes execute_command dispatched, in order

vars ==
    <<pc, ret, slot_occupancy, constant_cleaning, overflow_checks, line,
      msg, commands, ci, coords, vol_microliter, outcome, error, trace,
      pump_ready, router_outstanding, router_reply, busy_polls, cmd_start,
      entry_occupancy, done, dispatched>>

NoMessage == [some |-> FALSE, channel |-> 0, data |-> <<>>, crc |-> Zeros(32)]

NoCoords == <<>>

NoLine == <<"(none)">>

Event(dev, cmd) == [dev |-> dev, cmd |-> cmd]

StatusQuery == "/1Q29\r\n"

Init ==
    /\ pc = "main"
    /\ ret = "none"
    /\ slot_occupancy = U64Zero
    /\ constant_cleaning \in BOOLEAN
    /\ overflow_checks \in BOOLEAN
    /\ line = NoLine
    /\ msg = NoMessage
    /\ commands = <<>>
    /\ ci = 0
    /\ coords = NoCoords
    /\ vol_microliter = U64Zero
    /\ outcome = "none"
    /\ error = ""
    /\ trace = <<>>
    /\ pump_ready = FALSE
    /\ router_outstanding = 0
    /\ router_reply = NoLine
    /\ busy_polls = 0
    /\ cmd_start = 0
    /\ entry_occupancy = U64Zero
    /\ done = 0
    /\ dispatched = <<>>

(***************************************************************************)
(* Pure functions of the program                                           *)
(***************************************************************************)

\* parse_to_message without the comparison of the CRC
parse_to_message_unchecked(l) ==
    LET parts == Split[l, ","]
    IN  IF Len(parts) # 3 THEN NoMessage
        ELSE LET channel == ParseI8(parts[1])
                 data    == parts[2]
                 crc     == ParseHexU32(parts[3])
             IN  IF ~channel.ok THEN NoMessage
                 ELSE IF ~crc.ok THEN NoMessage
                 ELSE [some |-> TRUE, channel |-> channel.val,
                       data |-> data, crc |-> crc.val]

\* message.rs parse_to_message: Some(Message) or None
parse_to_message(l) ==
    LET parts == Split[l, ","]
    IN  IF Len(parts) # 3 THEN NoMessage
        ELSE LET channel == ParseI8(parts[1])
                 data    == parts[2]
                 crc     == ParseHexU32(parts[3])
             IN  IF ~channel.ok THEN NoMessage
                 ELSE IF ~crc.ok THEN NoMessage
                 ELSE IF Crc32(data) # crc.val THEN NoMessage
                 ELSE [some |-> TRUE, channel |-> channel.val,
                       data |-> data, crc |-> crc.val]

\* the lines taken by their first three fields, the rest ignored
ParsedLine_lenient ==
    [l \in Lines |->
        LET parts == Split[l, ","]
        IN  IF Len(parts) < 3 THEN NoMessage
            ELSE [some |-> TRUE, channel |-> ParseI8(parts[1]).val,
                  data |-> parts[2], crc |-> ParseHexU32(parts[3]).val]]

\* the message of each line the host may send
ParsedLine == [l \in Lines |-> parse_to_message(l)]

\* main.rs microliter_to_pumpunit: microliters * 24 in u64.  A product over
\* u64::MAX panics in a build with overflow checks and wraps in one without.
microliter_to_pumpunit(microliters) ==
    LET res == NumMul[microliters, 24]
    IN  IF NumLE[res, U64Max] THEN [panic |-> FALSE, val |-> res]
        ELSE IF overflow_checks THEN [panic |-> TRUE, val |-> U64Zero]
        ELSE [panic |-> FALSE, val |-> WrapU64[res]]

\* await_pump_availability: status.remove(0); status.pop(); status == "/0c"
\* (for a status line of at least one byte)
is_free(status) == SubSeq(status, 2, Len(status) - 1) = <<"/", "0", "c">>

\* any reply line taken for the acknowledgement
router_ok_any(reply) == TRUE

\* router_execute: the reply line is the acknowledgement
router_ok(reply) == reply = RouterOkLine

\* the test of the channel left out
channel_served_any(channel) == TRUE

\* handle_message: the channel the controller serves
channel_served(channel) == channel = 4

\* the test of slot_occupancy left out
needs_evacuation_never(occupancy) == FALSE

\* handle_liquid_application: the slot holds liquid of an earlier LA
needs_evacuation(occupancy) == occupancy # U64Zero

\* handle_liquid_application: from_number > 33
is_external(from_number) == ~NumLE[from_number, <<3, 3>>]

\* execute_command: command.split('_').next()
command_type(command) == Split[command, "_"][1]

(***************************************************************************)
(* The device commands the program formats                                 *)
(***************************************************************************)

EvacuateCommand == "/2gI1A12000O2A0G4R\r\n"

MoveCommand(x, y, z) ==
    "G1X" \o Str[x] \o "Y" \o Str[y] \o "Z" \o Str[z] \o "\r\n"

AspirateCommand(vol) == "/1I1A" \o NumStr(vol) \o "O2A0R\r\n"

LiftCommand(x, y) == "G1X" \o Str[x] \o "Y" \o Str[y] \o "Z0\r\n"

DispenseCommand == "/1gI1A12000O2A0G12R\r\n"

CleaningMoveCommand == "G1X227Y152Z-20\r\n"

WaterCommand == "/1gI4A12000O1A0G2R\r\n"

AirCommand == "/1gI5A12000O1A0G4R\r\n"

ExternalAspirateCommand(required_channel, pump_vol) ==
    "/1I" \o required_channel \o "A" \o NumStr(pump_vol) \o "O1A0R\r\n"

HomeCommand == "G28\r\n"

InitPump1Command == "/1ZgI4A12000O3A0G3R\r\n"

InitPump2Command == "/2ZR\r\n"

(***************************************************************************)
(* Control flow                                                            *)
(***************************************************************************)

\* go on at p, with r the position after the wait that p stands for
Goto(p, r) ==
    /\ pc' = p
    /\ ret' = r
    /\ UNCHANGED <<ci, outcome, error, done>>

\* a command returned ControlFlow::Continue: try_for_each takes the next
\* command (execute_command starts with await_pump_availability), or the
\* batch ends with "Executed command successfully"
Continue ==
    /\ done' = ci
    /\ coords' = NoCoords
    /\ vol_microliter' = U64Zero
    /\ IF ci < Len(commands)
       THEN /\ ci' = ci + 1
            /\ pc' = "await"
            /\ ret' = "execute_command"
            /\ UNCHANGED <<outcome, error>>
       ELSE /\ pc' = "idle"
            /\ ret' = "none"
            /\ outcome' = "success"
            /\ UNCHANGED <<ci, error>>

\* Break as a for_each in place of try_for_each would take it: the error is
\* logged and the next command is executed
Break_continues(e) ==
    /\ outcome' = "error"
    /\ error' = e
    /\ coords' = NoCoords
    /\ vol_microliter' = U64Zero
    /\ done' = 0
    /\ IF ci < Len(commands)
       THEN ci' = ci + 1 /\ pc' = "await" /\ ret' = "execute_command"
       ELSE pc' = "idle" /\ ret' = "none" /\ UNCHANGED ci

\* a command returned ControlFlow::Break(e): try_for_each stops, the error
\* is logged and handle_message returns to the receive loop
Break(e) ==
    /\ pc' = "idle"
    /\ ret' = "none"
    /\ outcome' = "error"
    /\ error' = e
    /\ coords' = NoCoords
    /\ vol_microliter' = U64Zero
    /\ done' = 0
    /\ UNCHANGED ci

\* the thread panics: the process ends
Panic(m) ==
    /\ pc' = "panicked"
    /\ ret' = "none"
    /\ outcome' = "panic"
    /\ error' = m
    /\ done' = 0
    /\ UNCHANGED <<ci, coords, vol_microliter>>

\* router_execute without the read of the reply
router_execute_unread(command, next) ==
    /\ trace' = Append(trace, Event("router", command))
    /\ router_outstanding' = router_outstanding + 1
    /\ Goto(next, "none")

\* Controller::router_execute, the write: the reply is read at router_read
router_execute(command, next) ==
    /\ trace' = Append(trace, Event("router", command))
    /\ router_outstanding' = router_outstanding + 1
    /\ Goto("router_read", next)

\* Controller::pump_execute_async in the place of pump_execute: drain, write,
\* return Continue without waiting for the pump
pump_execute_async(command, next) ==
    /\ trace' = Append(trace, Event("pump", command))
    /\ pump_ready' = FALSE
    /\ Goto(next, "none")

\* Controller::pump_execute: drain, write, sleep one second, then
\* await_pump_availability
pump_execute(command, next) ==
    /\ trace' = trace \o <<Event("pump", command), Event("sleep", "1s")>>
    /\ pump_ready' = FALSE
    /\ Goto("await", next)

Config == <<constant_cleaning, overflow_checks>>

Batch == <<line, msg, commands>>

Ghost == <<cmd_start, entry_occupancy, dispatched>>

Locals == <<coords, vol_microliter>>

(***************************************************************************)
(* main: the homing handshake                                              *)
(***************************************************************************)

\* drain the router port, sleep 5 s, read the "setup done" banner line
main_read_banner ==
    /\ pc = "main"
    /\ trace' = Append(trace, Event("sleep", "5s"))
    /\ \E banner \in RouterReplies : router_reply' = banner
    /\ Goto("main_home", "none")
    /\ UNCHANGED <<slot_occupancy, Config, Batch, Locals, Ghost, pump_ready,
                   router_outstanding, busy_polls>>

main_write_home ==
    /\ pc = "main_home"
    /\ trace' = Append(trace, Event("router", HomeCommand))
    /\ router_outstanding' = router_outstanding + 1
    /\ Goto("main_init_pump1", "none")
    /\ UNCHANGED <<slot_occupancy, Config, Batch, Locals, Ghost, pump_ready,
                   busy_polls>>
    /\ UNCHANGED router_reply

main_write_init_pump1 ==
    /\ pc = "main_init_pump1"
    /\ trace' = Append(trace, Event("pump", InitPump1Command))
    /\ pump_ready' = FALSE
    /\ Goto("main_init_pump2", "none")
    /\ UNCHANGED <<slot_occupancy, Config, Batch, Locals, Ghost,
                   router_outstanding, busy_polls>>
    /\ UNCHANGED router_reply

main_write_init_pump2 ==
    /\ pc = "main_init_pump2"
    /\ trace' = Append(trace, Event("pump", InitPump2Command))
    /\ pump_ready' = FALSE
    /\ Goto("main_home_ack", "none")
    /\ UNCHANGED <<slot_occupancy, Config, Batch, Locals, Ghost,
                   router_outstanding, busy_polls>>
    /\ UNCHANGED router_reply

\* read the router's line after G28, then enter the receive loop
main_read_home_ack ==
    /\ pc = "main_home_ack"
    /\ \E reply \in RouterReplies : router_reply' = reply
    /\ router_outstanding' = router_outstanding - 1
    /\ Goto("idle", "none")
    /\ UNCHANGED <<slot_occupancy, Config, Batch, Locals, Ghost, pump_ready,
                   trace, busy_polls>>

(***************************************************************************)
(* The receive loop                                                        *)
(***************************************************************************)

\* main's loop body: serial_readline on the application port, handle_line,
\* and handle_message up to the first command's await_pump_availability
handle_line ==
    /\ pc = "idle"
    /\ \E l \in Lines :
          LET m == ParsedLine[l]
          IN  /\ line' = l
              /\ msg' = m
              /\ IF ~m.some
                 THEN /\ outcome' = "invalid"
                      /\ commands' = <<>>
                      /\ ci' = 0
                      /\ UNCHANGED <<pc, ret>>
                 ELSE IF ~channel_served(m.channel)
                 THEN /\ outcome' = "dropped"
                      /\ commands' = <<>>
                      /\ ci' = 0
                      /\ UNCHANGED <<pc, ret>>
                 ELSE /\ outcome' = "running"
                      /\ commands' = Split[m.data, " "]
                      /\ ci' = 1
                      /\ pc' = "await"
                      /\ ret' = "execute_command"
    /\ error' = ""
    /\ trace' = <<>>
    /\ busy_polls' = 0
    /\ router_reply' = NoLine
    /\ cmd_start' = 0
    /\ entry_occupancy' = slot_occupancy
    /\ done' = 0
    /\ dispatched' = <<>>
    /\ UNCHANGED <<slot_occupancy, Config, Locals, pump_ready,
                   router_outstanding>>

\* one round of await_pump_availability's loop: write the status query, read
\* the reply line, strip its first and last byte, compare; sleep one second
\* when the pump is not idle.  String::remove(0) panics on an empty line.
await_pump_availability ==
    /\ pc = "await"
    /\ \E status \in PumpReplies :
          IF status = <<>>
          THEN /\ trace' = Append(trace, Event("pump", StatusQuery))
               /\ Panic("cannot remove a char from the end of a string")
               /\ UNCHANGED <<pump_ready, busy_polls>>
          ELSE IF is_free(status)
          THEN /\ trace' = Append(trace, Event("pump", StatusQuery))
               /\ pump_ready' = TRUE
               /\ Goto(ret, "none")
               /\ UNCHANGED <<busy_polls, Locals>>
          ELSE /\ busy_polls < MaxBusyPolls
               /\ trace' = trace \o <<Event("pump", StatusQuery),
                                      Event("sleep", "1s")>>
               /\ busy_polls' = busy_polls + 1
               /\ UNCHANGED <<pc, ret, ci, outcome, error, done, pump_ready,
                              Locals>>
    /\ UNCHANGED <<slot_occupancy, Config, Batch, Ghost, router_outstanding>>
    /\ UNCHANGED router_reply

\* Controller::router_execute, the read of the reply line
router_read ==
    /\ pc = "router_read"
    /\ \E reply \in RouterReplies :
          /\ router_reply' = reply
          /\ IF router_ok(reply)
             THEN Goto(ret, "none") /\ UNCHANGED Locals
             ELSE Break("Router - error executing command: ["
                        \o trace[Len(trace)].cmd \o "]")
    /\ router_outstanding' = router_outstanding - 1
    /\ UNCHANGED <<slot_occupancy, Config, Batch, Ghost, trace, pump_ready,
                   busy_polls>>

\* handle_waiting_command reading the milliseconds from parts.get(0)
handle_waiting_command_field0(command) ==
    LET parts == Split[command, "_"]
        time  == ParseU64(parts[1])
    IN  IF ~time.ok
        THEN Panic("Cannot get time for wait command") /\ UNCHANGED trace
        ELSE /\ trace' = Append(trace, Event("sleep", NumStr(time.val) \o "ms"))
             /\ Continue

\* handle_waiting_command: the milliseconds, or a panic of expect
handle_waiting_command(command) ==
    LET parts == Split[command, "_"]
        time  == IF Len(parts) < 2 THEN [ok |-> FALSE, val |-> U64Zero]
                 ELSE ParseU64(parts[2])
    IN  IF ~time.ok
        THEN Panic("Cannot get time for wait command") /\ UNCHANGED trace
        ELSE /\ trace' = Append(trace, Event("sleep", NumStr(time.val) \o "ms"))
             /\ Continue

\* execute_command after its await_pump_availability: dispatch on the
\* command type
execute_command ==
    /\ pc = "execute_command"
    /\ LET command == commands[ci]
           kind    == command_type(command)
       IN  IF kind = <<"L", "A">>
           THEN /\ pc' = "handle_liquid_application"
                /\ ret' = "none"
                /\ done' = 0
                /\ UNCHANGED <<ci, outcome, error, trace, Locals>>
           ELSE IF kind = <<"W">>
           THEN handle_waiting_command(command)
           ELSE IF kind = <<"T", "C">> \/ kind = <<"B", "T", "C">>
           THEN Continue /\ UNCHANGED trace
           ELSE Break("Unknown Command " \o Str[command]) /\ UNCHANGED trace
    /\ cmd_start' = Len(trace)
    /\ entry_occupancy' = slot_occupancy
    /\ dispatched' = Append(dispatched, ci)
    /\ UNCHANGED <<slot_occupancy, Config, Batch, pump_ready,
                   router_outstanding, busy_polls>>
    /\ UNCHANGED router_reply

\* a handler returns ControlFlow::Continue(()) to try_for_each
return_continue ==
    /\ pc = "return_continue"
    /\ Continue
    /\ UNCHANGED <<slot_occupancy, Config, Batch, Ghost, trace, pump_ready,
                   router_outstanding, busy_polls>>
    /\ UNCHANGED router_reply

(***************************************************************************)
(* handle_liquid_application                                               *)
(***************************************************************************)

\* drain both ports; when the slot holds liquid, write the pump-2 evacuation
\* program and wait for the pump
handle_liquid_application ==
    /\ pc = "handle_liquid_application"
    /\ IF needs_evacuation(slot_occupancy)
       THEN LET vol == microliter_to_pumpunit(slot_occupancy)
            IN  IF vol.panic
                THEN Panic("attempt to multiply with overflow")
                     /\ UNCHANGED <<trace, pump_ready>>
                ELSE pump_execute(EvacuateCommand, "la_evacuated")
                     /\ UNCHANGED Locals
       ELSE Goto("la_lookup", "none") /\ UNCHANGED <<trace, pump_ready, Locals>>
    /\ UNCHANGED <<slot_occupancy, Config, Batch, Ghost, router_outstanding,
                   busy_polls>>
    /\ UNCHANGED router_reply

\* la_evacuated without the assignment: slot_occupancy keeps its value after
\* the evacuation
la_evacuated_keeps ==
    /\ pc = "la_evacuated"
    /\ Goto("la_lookup", "none")
    /\ UNCHANGED <<slot_occupancy, Config, Batch, Ghost, Locals, trace,
                   pump_ready, router_outstanding, busy_polls>>
    /\ UNCHANGED router_reply

\* the evacuation program has completed: controller.slot_occupancy = 0
la_evacuated ==
    /\ pc = "la_evacuated"
    /\ slot_occupancy' = U64Zero
    /\ Goto("la_lookup", "none")
    /\ UNCHANGED <<Config, Batch, Ghost, Locals, trace, pump_ready,
                   router_outstanding, busy_polls>>
    /\ UNCHANGED router_reply

\* handle_external_liquid_application up to its first pump_execute
handle_external_liquid_application(from, vol) ==
    IF from \notin {<<3, 4>>, <<3, 5>>, <<3, 6>>}
    THEN Break("Developer is dumb") /\ UNCHANGED <<trace, pump_ready>>
    ELSE LET required_channel == CASE from = <<3, 4>> -> "4"
                                   [] from = <<3, 5>> -> "7"
                                   [] from = <<3, 6>> -> "6"
             pump_vol == microliter_to_pumpunit(vol)
         IN  IF pump_vol.panic
             THEN Panic("attempt to multiply with overflow")
                  /\ UNCHANGED <<trace, pump_ready>>
             ELSE pump_execute(
                      ExternalAspirateCommand(required_channel, pump_vol.val),
                      "ext_rinse")
                  /\ UNCHANGED Locals

\* the fields of the command, the coordinates of the slot, the slot number
\* and the volume; then the external fast path or the first router move
la_lookup ==
    /\ pc = "la_lookup"
    /\ LET command == commands[ci]
           parts   == Split[command, "_"]
       IN  IF Len(parts) < 2
           THEN Break("Cannot deduce 'from' part")
                /\ UNCHANGED <<trace, pump_ready, router_outstanding>>
           ELSE
           LET from == parts[2]
               xyz  == IF from \in DOMAIN tube_holder_coordinates
                       THEN Split[tube_holder_coordinates[from], ":"]
                       ELSE <<>>
               from_number == ParseU64(from)
               vol  == IF Len(parts) < 4 THEN [ok |-> FALSE, val |-> U64Zero]
                       ELSE ParseU64(parts[4])
           IN  IF Len(xyz) # 3
               THEN Panic("Couldn't find x/y/z coordinates from command: "
                          \o Str[command])
                    /\ UNCHANGED <<trace, pump_ready, router_outstanding>>
               ELSE IF ~from_number.ok
               THEN Break("Failed to execute command")
                    /\ UNCHANGED <<trace, pump_ready, router_outstanding>>
               ELSE IF ~vol.ok
               THEN Panic("called Option::unwrap() on a None value")
                    /\ UNCHANGED <<trace, pump_ready, router_outstanding>>
               ELSE IF is_external(from_number.val)
               THEN handle_external_liquid_application(from_number.val,
                                                       vol.val)
                    /\ UNCHANGED router_outstanding
               ELSE /\ router_execute(MoveCommand(xyz[1], xyz[2], xyz[3]),
                                      "la_aspirate")
                    /\ coords' = xyz
                    /\ vol_microliter' = vol.val
                    /\ UNCHANGED pump_ready
    /\ UNCHANGED <<slot_occupancy, Config, Batch, Ghost, busy_polls>>
    /\ UNCHANGED router_reply

\* the router is over the tube: pump 1 takes the liquid
la_aspirate ==
    /\ pc = "la_aspirate"
    /\ LET vol == microliter_to_pumpunit(vol_microliter)
       IN  IF vol.panic
           THEN Panic("attempt to multiply with overflow")
                /\ UNCHANGED <<trace, pump_ready>>
           ELSE pump_execute(AspirateCommand(vol.val), "la_lift")
                /\ UNCHANGED Locals
    /\ UNCHANGED <<slot_occupancy, Config, Batch, Ghost, router_outstanding,
                   busy_polls>>
    /\ UNCHANGED router_reply

\* the router lifts the head
la_lift ==
    /\ pc = "la_lift"
    /\ router_execute(LiftCommand(coords[1], coords[2]), "la_dispense")
    /\ UNCHANGED <<slot_occupancy, Config, Batch, Ghost, Locals, pump_ready,
                   busy_polls>>
    /\ UNCHANGED router_reply

\* pump 1 pumps the liquid to the slot
la_dispense ==
    /\ pc = "la_dispense"
    /\ pump_execute(DispenseCommand, "la_occupy")
    /\ UNCHANGED <<slot_occupancy, Config, Batch, Ghost, Locals,
                   router_outstanding, busy_polls>>
    /\ UNCHANGED router_reply

\* la_occupy with the test of constant_cleaning ahead of the assignment:
\* without constant cleaning slot_occupancy keeps its value
la_occupy_test_first ==
    /\ pc = "la_occupy"
    /\ IF constant_cleaning = FALSE
       THEN Continue /\ UNCHANGED <<trace, router_outstanding, slot_occupancy>>
       ELSE /\ slot_occupancy' = vol_microliter
            /\ router_execute(CleaningMoveCommand, "la_water")
            /\ UNCHANGED Locals
    /\ UNCHANGED <<Config, Batch, Ghost, pump_ready, busy_polls>>
    /\ UNCHANGED router_reply

\* controller.slot_occupancy = vol_microliter; return Continue without
\* constant cleaning, else move the router to the cleaning station
la_occupy ==
    /\ pc = "la_occupy"
    /\ slot_occupancy' = vol_microliter
    /\ IF constant_cleaning = FALSE
       THEN Continue /\ UNCHANGED <<trace, router_outstanding>>
       ELSE router_execute(CleaningMoveCommand, "la_water")
            /\ UNCHANGED Locals
    /\ UNCHANGED <<Config, Batch, Ghost, pump_ready, busy_polls>>
    /\ UNCHANGED router_reply

\* cleaning: pump water
la_water ==
    /\ pc = "la_water"
    /\ pump_execute(WaterCommand, "la_air")
    /\ UNCHANGED <<slot_occupancy, Config, Batch, Ghost, Locals,
                   router_outstanding, busy_polls>>
    /\ UNCHANGED router_reply

\* cleaning: pump air, then return Continue
la_air ==
    /\ pc = "la_air"
    /\ pump_execute(AirCommand, "return_continue")
    /\ UNCHANGED <<slot_occupancy, Config, Batch, Ghost, Locals,
                   router_outstanding, busy_polls>>
    /\ UNCHANGED router_reply

\* ext_rinse with the assignment of the normal path: after the rinse
\* slot_occupancy holds the volume of the command
ext_rinse_occupies ==
    /\ pc = "ext_rinse"
    /\ pump_execute(WaterCommand, "return_continue")
    /\ slot_occupancy' = ParseU64(Split[commands[ci], "_"][4]).val
    /\ UNCHANGED <<Config, Batch, Ghost, Locals, router_outstanding,
                   busy_polls>>
    /\ UNCHANGED router_reply

\* handle_external_liquid_application: the rinse after the aspirate, then
\* return Continue
ext_rinse ==
    /\ pc = "ext_rinse"
    /\ pump_execute(WaterCommand, "return_continue")
    /\ UNCHANGED <<slot_occupancy, Config, Batch, Ghost, Locals,
                   router_outstanding, busy_polls>>
    /\ UNCHANGED router_reply

(***************************************************************************)
(* The specification                                                       *)
(***************************************************************************)

Next ==
    \/ main_read_banner
    \/ main_write_home
    \/ main_write_init_pump1
    \/ main_write_init_pump2
    \/ main_read_home_ack
    \/ handle_line
    \/ await_pump_availability
    \/ router_read
    \/ execute_command
    \/ return_continue
    \/ handle_liquid_application
    \/ la_evacuated
    \/ la_lookup
    \/ la_aspirate
    \/ la_lift
    \/ la_dispense
    \/ la_occupy
    \/ la_water
    \/ la_air
    \/ ext_rinse

Spec == Init /\ [][Next]_vars

\* the steps the thread takes by itself: every step but the read of a line
\* from the application port, which waits for the host
Progress ==
    \/ main_read_banner
    \/ main_write_home
    \/ main_write_init_pump1
    \/ main_write_init_pump2
    \/ main_read_home_ack
    \/ await_pump_availability
    \/ router_read
    \/ execute_command
    \/ return_continue
    \/ handle_liquid_application
    \/ la_evacuated
    \/ la_lookup
    \/ la_aspirate
    \/ la_lift
    \/ la_dispense
    \/ la_occupy
    \/ la_water
    \/ la_air
    \/ ext_rinse

\* the thread runs on while it is not waiting for the host: the devices
\* answer every read, and the pump answers a status query with the idle
\* status in the end
FairSpec ==
    /\ Spec
    /\ WF_vars(Progress)
    /\ SF_vars(await_pump_availability /\ pump_ready')

(***************************************************************************)
(* Vocabulary of the properties                                            *)
(***************************************************************************)

\* a write to a device port that is no status query
IsCommand(e) ==
    e.dev = "router" \/ (e.dev = "pump" /\ e.cmd # StatusQuery)

IsPumpCommand(e) == e.dev = "pump" /\ e.cmd # StatusQuery

IsDeviceWrite(e) == e.dev = "router" \/ e.dev = "pump"

\* the events of t after the first k
Since(t, k) == SubSeq(t, k + 1, Len(t))

\* the device commands among the events of t, in order
Commands(t) == SelectSeq(t, IsCommand)

\* the device commands the current command has written so far
CommandWrites == Commands(Since(trace, cmd_start))

IsPrefix(a, b) == Len(a) <= Len(b) /\ SubSeq(b, 1, Len(a)) = a

\* this step appends events to the trace, a device command among them
CommandWritten ==
    /\ Len(trace') > Len(trace)
    /\ \E i \in (Len(trace) + 1)..Len(trace') : IsCommand(trace'[i])

PumpCommandsWritten ==
    IF Len(trace') > Len(trace)
    THEN Len(SelectSeq(Since(trace', Len(trace)), IsPumpCommand))
    ELSE 0

RouterCommandWritten ==
    /\ Len(trace') > Len(trace)
    /\ \E i \in (Len(trace) + 1)..Len(trace') : trace'[i].dev = "router"

\* the positions of handle_liquid_application and of the handler it calls
LAPositions ==
    {"handle_liquid_application", "la_evacuated", "la_lookup", "la_aspirate",
     "la_lift", "la_dispense", "la_occupy", "la_water", "la_air", "ext_rinse",
     "return_continue"}

\* a liquid application is under way
LAActive ==
    \/ pc \in LAPositions
    \/ pc \in {"await", "router_read"} /\ ret \in LAPositions

\* the command that was dispatched last has returned Continue
JustDone == done # 0 /\ Len(dispatched) = done

MainPositions ==
    {"main", "main_home", "main_init_pump1", "main_init_pump2",
     "main_home_ack"}

(***************************************************************************)
(* C1                                                                      *)
(***************************************************************************)

C1_Order ==
    /\ dispatched = [i \in 1..Len(dispatched) |-> i]
    /\ Len(dispatched) <= Len(commands)
    /\ outcome = "running" => Len(dispatched) \in {ci - 1, ci}
    /\ outcome = "error" => pc = "idle" /\ Len(dispatched) = ci

C1_Step ==
    \* a command is dispatched from execute_command only, the pump idle
    /\ (dispatched' # dispatched /\ dispatched' # <<>>)
          => /\ pc = "execute_command"
             /\ pump_ready
             /\ dispatched' = Append(dispatched, ci)
    \* execute_command is reached from its own await_pump_availability only
    /\ pc' = "execute_command"
          => /\ pc = "await"
             /\ ret = "execute_command"
             /\ trace'[Len(trace')] = Event("pump", StatusQuery)
             /\ pump_ready'
    \* the step that breaks writes nothing, and nothing follows it but the
    \* read of the next line
    /\ (outcome' = "error" /\ outcome # "error")
          => Len(SelectSeq(trace', IsDeviceWrite))
                = Len(SelectSeq(trace, IsDeviceWrite))
    /\ outcome = "error" => pc = "idle" /\ dispatched' = <<>> /\ trace' = <<>>

\* C1: the commands of a message on channel 4 are dispatched in the order
\* 1, 2, 3, ... of the data, each one right after an await_pump_availability
\* of its own has found the pump idle; once a command returns Break the
\* controller is back in the receive loop, no later command of the message
\* is dispatched and no device write follows for that message.
C1_InOrderUntilBreak == [](C1_Order) /\ [][C1_Step]_vars

\* a two-command message whose first command returned Break
C1_Witness ==
    /\ outcome = "error"
    /\ Len(commands) = 2
    /\ dispatched = <<1>>
    /\ pc = "idle"

(***************************************************************************)
(* C2                                                                      *)
(***************************************************************************)

\* the normal-path commands of the model with the device commands the claim
\* lists for each; 768614336404564651 * 24 = 18446744073709551624, which is
\* 2^64 + 8
NormalLA ==
    {[token |-> T_LA7,
      writes |-> <<Event("router", "G1X10Y20Z-5\r\n"),
                   Event("pump", "/1I1A2400O2A0R\r\n"),
                   Event("router", "G1X10Y20Z0\r\n"),
                   Event("pump", "/1gI1A12000O2A0G12R\r\n"),
                   Event("router", "G1X227Y152Z-20\r\n"),
                   Event("pump", "/1gI4A12000O1A0G2R\r\n"),
                   Event("pump", "/1gI5A12000O1A0G4R\r\n")>>],
     [token |-> T_LA8,
      writes |-> <<Event("router", "G1X30Y40Z-7\r\n"),
                   Event("pump", "/1I1A1200O2A0R\r\n"),
                   Event("router", "G1X30Y40Z0\r\n"),
                   Event("pump", "/1gI1A12000O2A0G12R\r\n"),
                   Event("router", "G1X227Y152Z-20\r\n"),
                   Event("pump", "/1gI4A12000O1A0G2R\r\n"),
                   Event("pump", "/1gI5A12000O1A0G4R\r\n")>>],
     [token |-> T_LA7over,
      writes |-> <<Event("router", "G1X10Y20Z-5\r\n"),
                   Event("pump", "/1I1A12024O2A0R\r\n"),
                   Event("router", "G1X10Y20Z0\r\n"),
                   Event("pump", "/1gI1A12000O2A0G12R\r\n"),
                   Event("router", "G1X227Y152Z-20\r\n"),
                   Event("pump", "/1gI4A12000O1A0G2R\r\n"),
                   Event("pump", "/1gI5A12000O1A0G4R\r\n")>>],
     [token |-> T_LA7big,
      writes |-> <<Event("router", "G1X10Y20Z-5\r\n"),
                   Event("pump", "/1I1A18446744073709551624O2A0R\r\n"),
                   Event("router", "G1X10Y20Z0\r\n"),
                   Event("pump", "/1gI1A12000O2A0G12R\r\n"),
                   Event("router", "G1X227Y152Z-20\r\n"),
                   Event("pump", "/1gI4A12000O1A0G2R\r\n"),
                   Event("pump", "/1gI5A12000O1A0G4R\r\n")>>]}

C2_Order ==
    \A la \in NormalLA :
       (/\ constant_cleaning
        /\ entry_occupancy = U64Zero
        /\ dispatched # <<>>
        /\ commands[Len(dispatched)] = la.token)
       => /\ LAActive => IsPrefix(CommandWrites, la.writes)
          /\ JustDone => CommandWrites = la.writes

C2_Gated ==
    (CommandWritten /\ pc \in LAPositions)
       => router_outstanding = 0 /\ pump_ready

\* C2: a normal-path LA of any volume that starts with slot_occupancy = 0
\* under constant cleaning writes, while it runs, a prefix of the seven listed
\* commands (router and pump interleaved, the aspirate carrying vol * 24) and,
\* when it has returned Continue, exactly the seven; each of its commands is
\* written only when no router command is unanswered and the last
\* await_pump_availability found the pump idle.
C2_Claim == [](C2_Order) /\ [][C2_Gated]_vars

(***************************************************************************)
(* C3                                                                      *)
(***************************************************************************)

\* the evacuation programs among the commands of the current command
Evacuations ==
    Len(SelectSeq(CommandWrites,
                  LAMBDA e : e = Event("pump", EvacuateCommand)))

\* C3: while a liquid application runs and when it has returned: if it
\* started with slot_occupancy = 0 it has written no evacuation program; if
\* it started with slot_occupancy > 0 the evacuation program is the first
\* command it writes and is written once, and when the coordinates are
\* looked up it has been written and slot_occupancy is 0.
C3_EvacuationFirst ==
    (LAActive \/ (JustDone /\ command_type(commands[done]) = <<"L", "A">>))
       => /\ entry_occupancy = U64Zero => Evacuations = 0
          /\ entry_occupancy # U64Zero
                => /\ Evacuations <= 1
                   /\ CommandWrites # <<>>
                         => CommandWrites[1] = Event("pump", EvacuateCommand)
                   /\ pc = "la_lookup"
                         => Evacuations = 1 /\ slot_occupancy = U64Zero

\* the second LA of a batch is about to look up its coordinates, the slot
\* evacuated
C3_Witness ==
    /\ pc = "la_lookup"
    /\ ci = 2
    /\ entry_occupancy # U64Zero
    /\ slot_occupancy = U64Zero
    /\ Evacuations = 1

(***************************************************************************)
(* C4                                                                      *)
(***************************************************************************)

\* C4 as claimed: from process start onward, a step writes a pump command
\* only when the last await_pump_availability found the pump idle and no
\* pump command was written since, and it writes one.
C4_Original ==
    [][PumpCommandsWritten > 0 => pump_ready /\ PumpCommandsWritten = 1]_vars

\* C4, amended: once the homing handshake of main is over, a step writes a
\* pump command only when the last await_pump_availability found the pump
\* idle and no pump command was written since, and it writes one.
C4_ReadyBeforePumpCommand ==
    [][(PumpCommandsWritten > 0 /\ pc \notin MainPositions)
          => pump_ready /\ PumpCommandsWritten = 1 /\ ~pump_ready']_vars

\* the air purge of the cleaning has been written and the pump is awaited
C4_Witness ==
    /\ pc = "await"
    /\ ret = "return_continue"
    /\ ~pump_ready
    /\ Len(trace) >= 2
    /\ trace[Len(trace) - 1] = Event("pump", AirCommand)

(***************************************************************************)
(* C5                                                                      *)
(***************************************************************************)

\* C5: at most one router command is written and not yet answered, at
\* startup and in the receive loop; a reply is read only for a command that
\* was written.
C5_OneRouterCommandOutstanding ==
    /\ router_outstanding \in {0, 1}
    /\ pc = "router_read" => router_outstanding = 1
    /\ pc \in LAPositions \cup {"idle", "execute_command", "await"}
          => router_outstanding = 0

\* the move to the cleaning station, the third router command of an LA, is
\* written and its reply awaited
C5_Witness ==
    /\ pc = "router_read"
    /\ ret = "la_water"
    /\ router_outstanding = 1
    /\ trace[Len(trace)] = Event("router", CleaningMoveCommand)

(***************************************************************************)
(* C6                                                                      *)
(***************************************************************************)

\* C6: after a correctly framed line whose channel is not 4 the controller
\* is in the receive loop again with nothing written to a device port, no
\* sleep, no command dispatched and slot_occupancy as it was.
C6_OtherChannelDropped ==
    (msg.some /\ msg.channel # 4)
       => /\ pc = "idle"
          /\ outcome = "dropped"
          /\ trace = <<>>
          /\ dispatched = <<>>
          /\ slot_occupancy = entry_occupancy

\* a liquid application sent on channel -1 while the slot holds liquid
C6_Witness ==
    /\ msg.some
    /\ msg.channel = -1
    /\ msg.data = T_LA7
    /\ slot_occupancy # U64Zero

(***************************************************************************)
(* C7                                                                      *)
(***************************************************************************)

\* the batch of the message is the single command W_150
WaitOnly == msg.some /\ commands = <<T_W150>>

\* C7 as claimed: a batch of one valid W command writes nothing to the
\* router port and nothing to the pump port and ends with success.
C7_Original ==
    WaitOnly
       => /\ \A i \in 1..Len(trace) : ~IsDeviceWrite(trace[i])
          /\ pc = "idle" => outcome = "success"

\* C7, amended: a batch of one valid W command writes nothing to the router
\* port and nothing but the status queries of await_pump_availability to the
\* pump port; it never ends with a Break, and when handle_message returns it
\* has slept the milliseconds and ends with success.
C7_WaitWritesStatusQueriesOnly ==
    WaitOnly
       => /\ \A i \in 1..Len(trace) :
                /\ trace[i].dev # "router"
                /\ trace[i].dev = "pump" => trace[i].cmd = StatusQuery
          /\ outcome # "error"
          /\ pc = "idle"
                => /\ outcome = "success"
                   /\ trace[Len(trace)] = Event("sleep", "150ms")
          /\ pc = "panicked"
                => error = "cannot remove a char from the end of a string"

\* the batch W_150 has ended with success after a poll that found the pump
\* busy
C7_Witness ==
    /\ WaitOnly
    /\ pc = "idle"
    /\ outcome = "success"
    /\ busy_polls = 1

(***************************************************************************)
(* C8                                                                      *)
(***************************************************************************)

\* the router has answered the first move of the current liquid application
\* with a line that is not G1:OK, and nothing was written since
FirstMoveRejected ==
    /\ dispatched # <<>>
    /\ router_reply # NoLine
    /\ router_reply # RouterOkLine
    /\ trace # <<>>
    /\ trace[Len(trace)].dev = "router"
    /\ Len(SelectSeq(CommandWrites, LAMBDA e : e.dev = "router")) = 1

\* C8 as claimed: the batch aborts with the router error and nothing was
\* written to the pump port for that batch (read in the claim's favour:
\* nothing but status queries).
C8_Original ==
    FirstMoveRejected
       => /\ pc = "idle"
          /\ outcome = "error"
          /\ error = "Router - error executing command: ["
                        \o trace[Len(trace)].cmd \o "]"
          /\ \A i \in 1..Len(trace) : ~IsPumpCommand(trace[i])

\* C8, amended: the batch aborts with the router error; nothing is written
\* to a device port after the rejected move, and before it that liquid
\* application has written to the pump port only the evacuation program,
\* and that only when it started with slot_occupancy > 0 (besides the status
\* queries of await_pump_availability); the controller is in the receive
\* loop, where the next line is read.
C8_RouterRejectAborts ==
    FirstMoveRejected
       => /\ pc = "idle"
          /\ outcome = "error"
          /\ error \in {"Router - error executing command: [G1X10Y20Z-5\r\n]",
                        "Router - error executing command: [G1X30Y40Z-7\r\n]"}
          /\ error = "Router - error executing command: ["
                        \o trace[Len(trace)].cmd \o "]"
          /\ SelectSeq(CommandWrites, IsPumpCommand)
                = IF entry_occupancy = U64Zero THEN <<>>
                  ELSE <<Event("pump", EvacuateCommand)>>
          /\ ENABLED handle_line

\* the first move of an LA that had to evacuate the slot was rejected
C8_Witness ==
    /\ FirstMoveRejected
    /\ pc = "idle"
    /\ entry_occupancy # U64Zero
    /\ router_reply = <<"E", "R", "R">>

(***************************************************************************)
(* C9                                                                      *)
(***************************************************************************)

\* C9 as claimed: a liquid application for slot 9, for which the
\* configuration holds no coordinates, writes nothing to a device port,
\* does not end the process and ends the batch with a Break.
C9_Claim ==
    (dispatched # <<>> /\ commands[Len(dispatched)] = T_LA9)
       => /\ \A i \in (cmd_start + 1)..Len(trace) : ~IsDeviceWrite(trace[i])
          /\ pc # "panicked"
          /\ pc = "idle" => outcome = "error"

(***************************************************************************)
(* C10                                                                     *)
(***************************************************************************)

\* the commands of the model with a grammar error: an unknown kind, an empty
\* command, W without or with non-numeric milliseconds, LA without a slot,
\* with a non-numeric or unknown slot, with coordinates of two fields,
\* without or with a non-numeric volume
GrammarErrorTokens ==
    {T_XX, <<>>, T_W, T_Wabc, T_LA, T_LAx, T_LAy, T_LA9, T_LA5, T_LA7novol,
     T_LA7badvol}

\* C10 as claimed: a command with a grammar error never ends the process
\* (the panic of await_pump_availability on an empty status line set
\* aside), and when it has been handled the batch has ended with a Break.
C10_Claim ==
    (dispatched # <<>> /\ commands[Len(dispatched)] \in GrammarErrorTokens)
       => /\ pc = "panicked"
                => error = "cannot remove a char from the end of a string"
          /\ pc = "idle" => outcome = "error"

(***************************************************************************)
(* C11                                                                     *)
(***************************************************************************)

\* a command written to pump 1: a pump command that is not one of the two
\* programs addressed to pump 2
IsPump1Command(e) ==
    IsPumpCommand(e) /\ e.cmd \notin {EvacuateCommand, InitPump2Command}

\* the liquid applications of the model for the slots 34, 35 and 36 (the
\* configuration holds coordinates for 34 and 36, none for 35), with the
\* two pump-1 commands the claim lists for each
ExternalLA ==
    {[token |-> T_LA34,
      writes |-> <<Event("pump", "/1I4A240O1A0R\r\n"),
                   Event("pump", "/1gI4A12000O1A0G2R\r\n")>>],
     [token |-> T_LA35,
      writes |-> <<Event("pump", "/1I7A240O1A0R\r\n"),
                   Event("pump", "/1gI4A12000O1A0G2R\r\n")>>],
     [token |-> T_LA36,
      writes |-> <<Event("pump", "/1I6A240O1A0R\r\n"),
                   Event("pump", "/1gI4A12000O1A0G2R\r\n")>>]}

\* C11 as claimed: a liquid application for slot 34, 35 or 36, with or
\* without coordinates in the configuration, does not end the process and
\* does not break, writes no router command, writes to pump 1 a prefix of
\* the two listed commands while it runs and, when the batch is over, has
\* written exactly the two and returned Continue.
C11_Claim ==
    \A la \in ExternalLA :
       (dispatched # <<>> /\ commands[Len(dispatched)] = la.token)
       => /\ pc = "panicked"
                => error = "cannot remove a char from the end of a string"
          /\ outcome # "error"
          /\ \A i \in 1..Len(CommandWrites) : CommandWrites[i].dev # "router"
          /\ IsPrefix(SelectSeq(CommandWrites, IsPump1Command), la.writes)
          /\ pc = "idle"
                => /\ JustDone
                   /\ SelectSeq(CommandWrites, IsPump1Command) = la.writes

(***************************************************************************)
(* C12                                                                     *)
(***************************************************************************)

\* the three cleaning writes
CleaningWrites ==
    <<Event("router", CleaningMoveCommand), Event("pump", WaterCommand),
      Event("pump", AirCommand)>>

\* the normal-path liquid applications compared under the two settings of
\* constant_cleaning
ComparedLA == {la \in NormalLA : la.token \in {T_LA7, T_LA8, T_LA7over}}

\* what a normal-path liquid application writes up to the dispense, whatever
\* constant_cleaning is: the evacuation program when it started with
\* slot_occupancy > 0, then move, aspirate, lift, dispense
BaseWrites(la) ==
    (IF entry_occupancy # U64Zero THEN <<Event("pump", EvacuateCommand)>>
     ELSE <<>>) \o SubSeq(la.writes, 1, 4)

\* the volume field of a liquid application
VolumeOf(token) == ParseU64(Split[token, "_"][4]).val

\* the run of the current liquid application without constant cleaning and
\* the run with it write the same commands in the same order up to the
\* dispense, and both leave the volume in slot_occupancy from then on; the
\* run without cleaning writes nothing more and returns Continue, the run
\* with cleaning writes nothing but cleaning writes after it and, when it
\* returns Continue, has written the three of them
C12_SameUpToCleaning(la) ==
    LET base == BaseWrites(la)
    IN  /\ IsPrefix(CommandWrites, base \o CleaningWrites)
        /\ ~constant_cleaning => IsPrefix(CommandWrites, base)
        /\ Len(CommandWrites) > Len(base)
              => constant_cleaning /\ slot_occupancy = VolumeOf(la.token)
        /\ JustDone
              => /\ slot_occupancy = VolumeOf(la.token)
                 /\ CommandWrites
                       = base \o (IF constant_cleaning THEN CleaningWrites
                                  ELSE <<>>)

\* C12 as claimed: the two runs differ by the three cleaning writes only,
\* the result included: the run with constant cleaning does not break after
\* the dispense, where the run without it has returned Continue.
C12_Original ==
    \A la \in ComparedLA :
       (dispatched # <<>> /\ commands[Len(dispatched)] = la.token)
       => /\ C12_SameUpToCleaning(la)
          /\ outcome = "error" => Len(CommandWrites) < Len(BaseWrites(la))

\* C12, amended: the two runs write the same commands in the same order up
\* to the dispense and leave the same slot_occupancy; the run without
\* constant cleaning then returns Continue, the run with it writes the
\* three cleaning writes and returns Continue, or breaks with the router
\* error when the move to the cleaning station is rejected, having written
\* that move only and leaving slot_occupancy at the volume.
C12_CleaningOnlyDifference ==
    \A la \in ComparedLA :
       (dispatched # <<>> /\ commands[Len(dispatched)] = la.token)
       => /\ C12_SameUpToCleaning(la)
          /\ (outcome = "error" /\ Len(CommandWrites) >= Len(BaseWrites(la)))
                => /\ constant_cleaning
                   /\ CommandWrites
                         = BaseWrites(la)
                              \o <<Event("router", CleaningMoveCommand)>>
                   /\ slot_occupancy = VolumeOf(la.token)
                   /\ error = "Router - error executing command: ["
                                 \o CleaningMoveCommand \o "]"

\* without constant cleaning the LA for slot 8, which had to evacuate the
\* slot first, has returned Continue after five commands
C12_Witness ==
    /\ ~constant_cleaning
    /\ JustDone
    /\ commands[done] = T_LA8
    /\ entry_occupancy # U64Zero
    /\ slot_occupancy = <<5, 0>>
    /\ Len(CommandWrites) = 5

(***************************************************************************)
(* C13                                                                     *)
(***************************************************************************)

\* the conditions of a frame: three fields, a channel that is an i8, a CRC
\* field that is a hexadecimal u32, the CRC-32 of the data equal to it
IsFrame ==
    [l \in Lines |->
        LET parts == Split[l, ","]
        IN  /\ Len(parts) = 3
            /\ ParseI8(parts[1]).ok
            /\ ParseHexU32(parts[3]).ok
            /\ Crc32(parts[2]) = ParseHexU32(parts[3]).val]

\* the CRC-32 of the second field of a line
DataCrc ==
    [l \in Lines |->
        LET parts == Split[l, ","]
        IN  IF Len(parts) < 2 THEN Zeros(32) ELSE Crc32(parts[2])]

\* C13: the line read last has yielded a Message exactly when it is a frame
\* (three fields, channel an i8, CRC field a hexadecimal u32, CRC-32 of the
\* data equal to it), which are the lines of the model other than the
\* rejected ones; the Message carries the three fields, and the CRC-32 of
\* its data computed again equals its crc.
C13_MessageOnlyFromFrame ==
    line # NoLine
       => /\ msg.some <=> IsFrame[line]
          /\ msg.some <=> line \notin RejectedLines
          /\ msg.some
                => LET parts == Split[line, ","]
                   IN  /\ msg.channel = ParseI8(parts[1]).val
                       /\ msg.channel \in -128..127
                       /\ msg.data = parts[2]
                       /\ msg.crc = ParseHexU32(parts[3]).val
                       /\ DataCrc[line] = msg.crc

\* the frame with the signed channel and the upper-case CRC has yielded the
\* Message of the batch W_150 on channel 4
C13_Witness ==
    /\ line = SignedUpperLine
    /\ msg.some
    /\ msg.channel = 4
    /\ msg.data = T_W150
    /\ msg.crc = ParseHexU32(HostCrc[T_W150]).val

(***************************************************************************)
(* C14                                                                     *)
(***************************************************************************)

\* the line of four fields among the rejected ones
FourFieldLine == Frame(<<"4">>, T_W150, HostCrc[T_W150]) \o <<",", "1">>

\* C14: after a line that is no frame (wrong field count, channel or CRC
\* field that does not parse, CRC mismatch) the controller is in the receive
\* loop, where the next line can be read, with nothing written to a device
\* port, no sleep, no command dispatched and slot_occupancy as it was.
C14_RejectedFrameNoEffect ==
    (line # NoLine /\ ~IsFrame[line])
       => /\ line \in RejectedLines
          /\ pc = "idle"
          /\ outcome = "invalid"
          /\ trace = <<>>
          /\ dispatched = <<>>
          /\ slot_occupancy = entry_occupancy
          /\ ENABLED handle_line

\* the line of four fields was rejected while the slot holds liquid
C14_Witness ==
    /\ line = FourFieldLine
    /\ ~msg.some
    /\ outcome = "invalid"
    /\ slot_occupancy # U64Zero

(***************************************************************************)
(* C15                                                                     *)
(***************************************************************************)

\* normal-path liquid applications of 100, 501 and 768614336404564651
\* microliters: in range, over 12000 pump units, and over u64::MAX pump units
VolumeLA == {T_LA7, T_LA7over, T_LA7big}

\* the commands the current command has written to pump 1
Pump1Writes == SelectSeq(CommandWrites, IsPump1Command)

\* C15 as claimed: a normal-path liquid application of any volume does not
\* end the process in the multiplication, and the first command it writes
\* to pump 1, the aspirate, carries the product vol * 24 of the integers.
C15_Claim ==
    (dispatched # <<>> /\ commands[Len(dispatched)] \in VolumeLA)
       => /\ error # "attempt to multiply with overflow"
          /\ Pump1Writes # <<>>
                => Pump1Writes[1]
                      = Event("pump",
                              "/1I1A"
                                 \o NumStr(NumMul[
                                       VolumeOf(commands[Len(dispatched)]),
                                       24])
                                 \o "O2A0R\r\n")

(***************************************************************************)
(* C16                                                                     *)
(***************************************************************************)

\* the batch is over, Done or Aborted, and the controller is in the receive
\* loop
BatchOver == pc = "idle" /\ outcome \in {"success", "error"}

\* the process has ended in await_pump_availability on an empty status line
StatusLinePanic ==
    pc = "panicked" /\ error = "cannot remove a char from the end of a string"

\* C16 as claimed: when the devices answer, every batch that is being
\* executed, of well-formed or malformed tokens, is over in the end with the
\* controller in the receive loop (a pump that answers a status query
\* with an empty line set aside).
C16_Claim == (outcome = "running") ~> (BatchOver \/ StatusLinePanic)

(***************************************************************************)
(* C17                                                                     *)
(***************************************************************************)

\* the command dispatched last is an LA that has not returned Continue: it
\* is being handled, or it has ended the batch
C17_InLA ==
    /\ dispatched # <<>>
    /\ dispatched[Len(dispatched)] = ci
    /\ done # ci
    /\ command_type(commands[ci]) = <<"L", "A">>

\* the current command has written the device command e
C17_Wrote(e) == \E i \in 1..Len(CommandWrites) : CommandWrites[i] = e

\* the device command written last by the current command is cmd, and the
\* pump has answered idle since
C17_Completed(cmd) ==
    /\ CommandWrites # <<>>
    /\ CommandWrites[Len(CommandWrites)] = Event("pump", cmd)
    /\ pump_ready

\* a step changes slot_occupancy only to 0 after the completed evacuation
\* program, or to the volume of the LA after its completed pump-1 dispense;
\* both steps make their assignment
C17_Changes ==
    /\ slot_occupancy' # slot_occupancy => pc \in {"la_evacuated", "la_occupy"}
    /\ pc = "la_evacuated"
          => /\ slot_occupancy' = U64Zero
             /\ C17_Completed(EvacuateCommand)
             /\ C17_InLA
    /\ pc = "la_occupy"
          => /\ slot_occupancy' = VolumeOf(commands[ci])
             /\ C17_Completed(DispenseCommand)
             /\ C17_InLA

\* slot_occupancy in the states of an LA: 0 through the handshake; the
\* volume of the LA once its cleaning move is written, whatever the cleaning
\* does then; 0 or the value on entry while the dispense is not written
C17_Values ==
    /\ pc \in MainPositions => slot_occupancy = U64Zero
    /\ (C17_InLA /\ C17_Wrote(Event("router", CleaningMoveCommand)))
          => slot_occupancy = VolumeOf(commands[ci])
    /\ (C17_InLA /\ ~C17_Wrote(Event("pump", DispenseCommand)))
          => slot_occupancy \in {U64Zero, entry_occupancy}

\* C17: slot_occupancy is 0 at start and changes only inside
\* handle_liquid_application: to 0 when the evacuation program has
\* completed, to vol when the pump-1 dispense has completed.  An LA that
\* passed the dispense leaves vol even when the cleaning breaks the batch; an
\* LA that ends before the dispense leaves 0 or the value it found.
C17_OccupancyUpdates == [](C17_Values) /\ [][C17_Changes]_vars

\* the router rejected the cleaning move of an LA that found the slot
\* occupied: the batch is aborted and the slot holds the volume of this LA,
\* not the one it found
C17_Witness ==
    /\ C17_InLA
    /\ outcome = "error"
    /\ C17_Wrote(Event("router", CleaningMoveCommand))
    /\ entry_occupancy # U64Zero
    /\ slot_occupancy = VolumeOf(commands[ci])
    /\ slot_occupancy # entry_occupancy

(***************************************************************************)
(* C18                                                                     *)
(***************************************************************************)

\* this step is a round of await_pump_availability that returns Continue to
\* its caller
C18_Returns == pc' = ret /\ pump_ready' /\ outcome' = outcome

\* this step is a round of await_pump_availability that sleeps a second and
\* stays in the loop
C18_PollsAgain ==
    /\ pc' = "await"
    /\ ret' = ret
    /\ outcome' = outcome
    /\ trace' = trace \o <<Event("pump", StatusQuery), Event("sleep", "1s")>>

\* C18 as claimed: a round of await_pump_availability writes the status
\* query and, for a reply line of any length, an empty one too, either
\* returns Continue or sleeps and polls again; it does not fail and it does
\* not return Break.
C18_Claim == [][pc = "await" => (C18_Returns \/ C18_PollsAgain)]_vars

(***************************************************************************)
(* C19                                                                     *)
(***************************************************************************)

\* the liquid applications of the model for a slot above 33 that is not 34,
\* 35 or 36: the configuration holds coordinates for 40, none for 41
OtherSlotLA == {T_LA40, T_LA41}

\* C19 as claimed: a liquid application for a slot above 33 other than 34,
\* 35 and 36, with or without coordinates in the configuration, does not end
\* the process (an empty pump status line set aside), writes no pump-1
\* command and no router command, and the batch is over with a Break.
C19_Claim ==
    (dispatched # <<>> /\ commands[Len(dispatched)] \in OtherSlotLA)
       => /\ pc = "panicked"
                => error = "cannot remove a char from the end of a string"
          /\ \A i \in 1..Len(CommandWrites) :
                /\ CommandWrites[i].dev # "router"
                /\ ~IsPump1Command(CommandWrites[i])
          /\ pc = "idle" => outcome = "error" /\ error = "Developer is dumb"

(***************************************************************************)
(* C20                                                                     *)
(***************************************************************************)

\* the tokens of the model for the external sources
ExternalTokens == {T_LA34, T_LA35, T_LA36}

\* the command dispatched last is for an external source
C20_InExternal ==
    dispatched # <<>> /\ commands[Len(dispatched)] \in ExternalTokens

\* a liquid application was dispatched last, right after a liquid
\* application for an external source
C20_FollowsExternal ==
    /\ Len(dispatched) >= 2
    /\ commands[Len(dispatched) - 1] \in ExternalTokens
    /\ command_type(commands[Len(dispatched)]) = <<"L", "A">>

\* slot_occupancy is 0 from the lookup of an external-source LA on and when
\* it has returned; the LA that follows it writes no evacuation program
C20_Values ==
    /\ (C20_InExternal /\ (JustDone \/ pc \in {"ext_rinse", "return_continue"}))
          => slot_occupancy = U64Zero
    /\ C20_FollowsExternal
          => /\ entry_occupancy = U64Zero
             /\ \A i \in 1..Len(CommandWrites) :
                   CommandWrites[i] # Event("pump", EvacuateCommand)

\* while an external-source LA is handled, a step changes slot_occupancy
\* only to 0
C20_Changes ==
    (C20_InExternal /\ ~JustDone /\ slot_occupancy' # slot_occupancy)
       => slot_occupancy' = U64Zero

\* C20: an external-source LA never sets slot_occupancy to its volume; when
\* it has returned slot_occupancy is 0, and the LA that directly follows it
\* writes no pump-2 evacuation program.
C20_ExternalLeavesSlotEmpty == [](C20_Values) /\ [][C20_Changes]_vars

\* LA_34_0_10 found the slot occupied, evacuated it and returned; the
\* LA_7_0_100 after it has moved the router without an evacuation
C20_Witness ==
    /\ commands = <<T_LA34, T_LA7>>
    /\ Len(dispatched) = 2
    /\ \E i \in 1..cmd_start : trace[i] = Event("pump", EvacuateCommand)
    /\ CommandWrites # <<>>
    /\ CommandWrites[1].dev = "router"

=============================================================================
